---- MODULE Spec2Model ----
(***************************************************************************)
(* Model of the cloudera.cloud "de" Ansible module (plugins/modules/de.py): *)
(* DEService.process reconciles a declared state (present / absent) of a   *)
(* CDP Data Engineering service against the state reported by the CDP      *)
(* control plane, optionally polling until the service settles.            *)
(*                                                                         *)
(* The control plane (cdpy) is the environment: a table of services whose  *)
(* statuses progress on their own while the module runs.  Each collaborator*)
(* call of the module is one step, so that the remote side may progress    *)
(* between two calls.                                                      *)
(***************************************************************************)
EXTENDS Integers, Sequences, FiniteSets, TLC

\* ------------------------------------------------------------------ bounds
\* Services the control plane holds before the first run.
MaxServices == 2
\* Successive runs of the module against the same control plane.
MaxRuns == 2
\* Largest polling delay and polling timeout (seconds) tried.
MaxDelay == 2
MaxTimeout == 2

\* --------------------------------------------------------------- constants
\* self.name, and the name of some other service of the environment.
Name == "svc-a"
Names == {"svc-a", "svc-b"}

\* The absent clusterId (None) and the absent descriptor (None).
NullId == 0
None == [name |-> "", clusterId |-> NullId, status |-> ""]

\* Lifecycle state sets of the SDK, restricted to the DE statuses.
REMOVABLE_STATES == {"ClusterCreationCompleted"}
STOPPED_STATES == {"ClusterDeletionCompleted"}
\* Statuses in neither set: the service is being provisioned or deleted.
TransitionalStates == {"ClusterCreationInProgress", "ClusterDeletionInProgress"}
\* Every status a describe may report; "" is the empty status the module
\* treats like a missing service.
Statuses == REMOVABLE_STATES \cup STOPPED_STATES \cup TransitionalStates \cup {""}

\* Values of the 'state' parameter handed to DEService; "restarted" stands for
\* any value outside the module's choices.
DesiredStates == {"present", "absent", "restarted"}

\* Warning texts of the module.
WarnNotRemovable == "DE Service is not in a removable state: %s"
WarnWaiting == "Waiting for DE Service to reach Active or Disabled state"
WarnPresent == "DE Service already present and configuration validation and reconciliation is not supported"
WarnNotEnabled == "DE service did not enable successfully"
WarnNotDisabled == "DE service did not disable successfully"

VARIABLES
    services,      \* the control plane: sequence of descriptors, in list order
    state,         \* self.state
    wait,          \* self.wait
    check_mode,    \* self.module.check_mode
    delay,         \* self.delay
    timeout,       \* self.timeout
    pc,            \* position of the run
    listed,        \* what list_services returned to process()
    cluster_id,    \* self.cluster_id
    initial_desc,  \* initial_desc of process()
    waited_desc,   \* current_desc of process(): what its wait returned
    current_desc,  \* descriptor last returned by describe inside the poller
    service,       \* self.service
    output,        \* the dict handed to exit_json
    warnings,      \* module.warn messages of this run, in order
    calls,         \* collaborator calls of this run, in order
    poll_state,    \* 'state' argument of the running wait_for_state
    poll_ret,      \* where the running wait_for_state returns to
    elapsed,       \* seconds slept by the running wait_for_state
    timed_out,     \* return points whose wait_for_state gave up on timeout
    raised,        \* the collaborator call whose exception ended the run, or ""
    run,           \* number of the current run
    info           \* the run of the de_info module (DEInfo), a record

params == <<state, wait, check_mode, delay, timeout>>
descs == <<initial_desc, waited_desc>>
poller == <<poll_state, poll_ret, elapsed, current_desc>>
vars == <<services, state, wait, check_mode, delay, timeout, pc, cluster_id,
          initial_desc, waited_desc, current_desc, service, output, warnings, calls,
          poll_state, poll_ret, elapsed, timed_out, run, listed, raised, info>>

\* ----------------------------------------------------------------- helpers
Call(op, id, states) == [op |-> op, id |-> id, states |-> states]

\* module.warn(msg % arg)
Warning(msg, arg) == [msg |-> msg, arg |-> arg]

\* The empty dict main() reports when self.service is not set.
Empty == None

\* The output before main() has built it.
NoOutput == [changed |-> FALSE, service |-> None, set |-> FALSE]

\* Python truthiness of a descriptor: None and {} are false.
Truthy(desc) == desc # None

\* cdpy.de.describe_service(cluster_id) against the control plane.
describe_service(id) == services[id]

\* cdpy.de.list_services(remove_deleted=True): the partial records (name and
\* clusterId) of the services of the control plane, in its order.
list_services(table) ==
    [i \in 1..Len(table) |-> [name |-> table[i].name,
                              clusterId |-> table[i].clusterId]]

\* The loop of process(): clusterId of the first listed service named self.name.
RECURSIVE FirstMatch(_, _)
FirstMatch(list, i) ==
    IF i > Len(list) THEN NullId
    ELSE IF list[i].name = Name THEN list[i].clusterId
    ELSE FirstMatch(list, i + 1)

\* Descriptors the control plane may hold at position i before the first run:
\* a service named self.name in any status, one that is listed without a
\* clusterId yet, or another service, whose status the module never reads.
InitialServices(i) ==
    [name : {Name}, clusterId : {i}, status : Statuses]
      \cup [name : {Name}, clusterId : {NullId}, status : {"ClusterCreationInProgress"}]
      \cup [name : Names \ {Name}, clusterId : {i}, status : REMOVABLE_STATES]

\* The loop of process() stops at the first service named self.name: the
\* module reads the status of no service listed after it, so these start
\* active, with a clusterId.
ReadByProcess(list, i) == \A j \in 1..(i - 1) : list[j].name # Name
AtRest(i) == [name : Names, clusterId : {i}, status : REMOVABLE_STATES]

\* A fresh run: parameters of the module and the initial values of __init__.
StartRun(n) ==
    /\ state \in DesiredStates
    /\ wait \in BOOLEAN
    /\ check_mode \in BOOLEAN
    /\ delay \in 1..MaxDelay
    /\ timeout \in 1..MaxTimeout
    /\ pc = "list"
    /\ cluster_id = NullId
    /\ initial_desc = None
    /\ waited_desc = None
    /\ current_desc = None
    /\ service = None
    /\ output = NoOutput
    /\ warnings = <<>>
    /\ calls = <<>>
    /\ poll_state = {}
    /\ poll_ret = "none"
    /\ elapsed = 0
    /\ timed_out = {}
    /\ listed = <<>>
    /\ raised = ""
    /\ run = n

\* DEInfo before it runs: self.name unset, self.services = [].
NoInfo == [pc |-> "off", name |-> "", listed |-> <<>>, i |-> 0,
           services |-> <<>>, calls |-> <<>>, output |-> <<>>]

Init ==
    /\ info = NoInfo
    /\ \E n \in 0..MaxServices :
         services \in {s \in [1..n -> UNION {InitialServices(i) : i \in 1..n}] :
                          \A i \in 1..n :
                              /\ s[i].clusterId \in {i, NullId}
                              /\ ReadByProcess(s, i) \/ s[i] \in AtRest(i)}
    /\ StartRun(1)

\* ------------------------------------------------------------ control plane
\* A service that is being provisioned or deleted completes on its own;
\* a service in REMOVABLE_STATES or STOPPED_STATES stays as it is until
\* the module acts on it (one actor per service, no concurrent invocation).
Completed(status) ==
    IF status = "ClusterCreationInProgress" THEN "ClusterCreationCompleted"
    ELSE IF status = "ClusterDeletionInProgress" THEN "ClusterDeletionCompleted"
    ELSE status

RemoteProgress ==
    /\ \E i \in 1..Len(services) :
         /\ services[i].status \in TransitionalStates
         /\ services' = [services EXCEPT ![i].status = Completed(@)]
    /\ UNCHANGED <<state, wait, check_mode, delay, timeout, pc, cluster_id,
                   initial_desc, waited_desc, current_desc, service, output,
                   warnings, calls, poll_state, poll_ret, elapsed, timed_out, run>>
    /\ UNCHANGED <<listed, raised, info>>

\* cdpy.de.enable_service: the control plane creates a service under a new
\* clusterId and starts provisioning it.
Enabled(list) ==
    Append(list, [name |-> Name, clusterId |-> Len(list) + 1,
                  status |-> "ClusterCreationInProgress"])

\* cdpy.de.disable_service(id): the control plane starts deleting the service.
Disabled(list, id) ==
    [list EXCEPT ![id].status = "ClusterDeletionInProgress"]

\* ------------------------------------------------------------------ poller
\* self._wait_for_state(state): enters cdpy.sdk.wait_for_state, which returns
\* to 'ret'.
WaitForState(before, target, ret) ==
    /\ calls' = Append(before, Call("wait_for_state", cluster_id', target))
    /\ poll_state' = target
    /\ poll_ret' = ret
    /\ elapsed' = 0
    /\ pc' = "poll"

\* One round of wait_for_state: describe, and return on a status in 'state'.
PollDescribe ==
    /\ pc = "poll"
    /\ current_desc' = describe_service(cluster_id)
    /\ calls' = Append(calls, Call("describe_service", cluster_id, {}))
    /\ pc' = IF current_desc'.status \in poll_state THEN poll_ret ELSE "sleep"
    /\ UNCHANGED <<services, params, cluster_id, descs, service, output,
                   warnings, poll_state, poll_ret, elapsed, timed_out, run>>
    /\ UNCHANGED <<listed, raised, info>>

\* PollSleep, were the poller to raise on timeout instead of returning.
PollSleep_RaisesOnTimeout ==
    /\ pc = "sleep"
    /\ elapsed' = elapsed + delay
    /\ IF elapsed' >= timeout
         THEN /\ pc' = "aborted"
              /\ timed_out' = timed_out \cup {poll_ret}
         ELSE /\ pc' = "poll"
              /\ UNCHANGED timed_out
    /\ UNCHANGED <<services, params, cluster_id, descs, current_desc,
                   service, output, warnings, calls, poll_state, poll_ret, run>>
    /\ UNCHANGED <<listed, raised, info>>

\* PollSleep, were the poller to go on until the timeout is exceeded.
PollSleep_StrictTimeout ==
    /\ pc = "sleep"
    /\ elapsed' = elapsed + delay
    /\ IF elapsed' > timeout
         THEN /\ pc' = poll_ret
              /\ timed_out' = timed_out \cup {poll_ret}
         ELSE /\ pc' = "poll"
              /\ UNCHANGED timed_out
    /\ UNCHANGED <<services, params, cluster_id, descs, current_desc,
                   service, output, warnings, calls, poll_state, poll_ret, run>>
    /\ UNCHANGED <<listed, raised, info>>

\* The sleep between two rounds; on timeout the last descriptor is returned.
PollSleep ==
    /\ pc = "sleep"
    /\ elapsed' = elapsed + delay
    /\ IF elapsed' >= timeout
         THEN /\ pc' = poll_ret
              /\ timed_out' = timed_out \cup {poll_ret}
         ELSE /\ pc' = "poll"
              /\ UNCHANGED timed_out
    /\ UNCHANGED <<services, params, cluster_id, descs, current_desc,
                   service, output, warnings, calls, poll_state, poll_ret, run>>
    /\ UNCHANGED <<listed, raised, info>>

\* ----------------------------------------------------------------- process
\* process(): the listing and the search for self.name.
ListServices ==
    /\ pc = "list"
    /\ calls' = Append(calls, Call("list_services", NullId, {}))
    /\ listed' = list_services(services)
    /\ cluster_id' = FirstMatch(listed', 1)
    /\ pc' = "describe"
    /\ UNCHANGED <<raised, info>>
    /\ UNCHANGED <<services, params, descs, service, output, warnings,
                   poller, timed_out, run>>

\* process(): initial_desc.
DescribeInitial ==
    /\ pc = "describe"
    /\ IF cluster_id # NullId
         THEN /\ initial_desc' = describe_service(cluster_id)
              /\ calls' = Append(calls, Call("describe_service", cluster_id, {}))
         ELSE /\ initial_desc' = None
              /\ UNCHANGED calls
    /\ pc' = "branch"
    /\ UNCHANGED <<services, params, cluster_id, waited_desc, service, output, warnings,
                   poller, timed_out, run>>
    /\ UNCHANGED <<listed, raised, info>>

\* The condition "a service under the name/env pair was found".
Found == Truthy(initial_desc) /\ initial_desc.status # ""

\* process(): a service was found, expected state 'absent'.
FoundAbsent ==
    /\ pc = "branch" /\ Found /\ state = "absent"
    /\ UNCHANGED cluster_id
    /\ IF check_mode
         THEN /\ service' = initial_desc
              /\ pc' = "exit"
              /\ UNCHANGED <<warnings, calls, poll_state, poll_ret, elapsed>>
         ELSE /\ UNCHANGED service
              /\ IF initial_desc.status \in REMOVABLE_STATES
                   THEN /\ pc' = "disable"
                        /\ UNCHANGED <<warnings, calls, poll_state, poll_ret, elapsed>>
                   ELSE IF wait
                     THEN /\ warnings' = warnings \o
                               <<Warning(WarnNotRemovable, initial_desc.status),
                                 Warning(WarnWaiting, "")>>
                          /\ WaitForState(calls, REMOVABLE_STATES \cup STOPPED_STATES,
                                          "absent_waited")
                     ELSE /\ warnings' = Append(warnings,
                               Warning(WarnNotRemovable, initial_desc.status))
                          /\ pc' = "exit"
                          /\ UNCHANGED <<calls, poll_state, poll_ret, elapsed>>
    /\ UNCHANGED <<services, params, descs, current_desc, output,
                   timed_out, run>>
    /\ UNCHANGED <<listed, raised, info>>

\* AbsentWaited, were it to disable whatever has not stopped.
AbsentWaited_DisablesUnlessStopped ==
    /\ pc = "absent_waited"
    /\ waited_desc' = current_desc
    /\ IF waited_desc'.status \notin STOPPED_STATES
         THEN /\ pc' = "disable"
              /\ UNCHANGED <<service, warnings>>
         ELSE /\ service' = waited_desc'
              /\ warnings' = IF waited_desc'.status \notin STOPPED_STATES
                               THEN Append(warnings, Warning(WarnNotDisabled, ""))
                               ELSE warnings
              /\ pc' = "exit"
    /\ UNCHANGED <<services, params, cluster_id, initial_desc, output, calls,
                   poller, timed_out, run>>
    /\ UNCHANGED <<listed, raised, info>>

\* AbsentWaited, were it to decide on the status seen before the wait.
AbsentWaited_UsesInitial ==
    /\ pc = "absent_waited"
    /\ waited_desc' = current_desc
    /\ IF initial_desc.status \in REMOVABLE_STATES
         THEN /\ pc' = "disable"
              /\ UNCHANGED <<service, warnings>>
         ELSE /\ service' = waited_desc'
              /\ warnings' = IF waited_desc'.status \notin STOPPED_STATES
                               THEN Append(warnings, Warning(WarnNotDisabled, ""))
                               ELSE warnings
              /\ pc' = "exit"
    /\ UNCHANGED <<services, params, cluster_id, initial_desc, output, calls,
                   poller, timed_out, run>>
    /\ UNCHANGED <<listed, raised, info>>

\* process(): after the wait of the 'absent' branch.
AbsentWaited ==
    /\ pc = "absent_waited"
    /\ waited_desc' = current_desc
    /\ IF waited_desc'.status \in REMOVABLE_STATES
         THEN /\ pc' = "disable"
              /\ UNCHANGED <<service, warnings>>
         ELSE /\ service' = waited_desc'
              /\ warnings' = IF waited_desc'.status \notin STOPPED_STATES
                               THEN Append(warnings, Warning(WarnNotDisabled, ""))
                               ELSE warnings
              /\ pc' = "exit"
    /\ UNCHANGED <<services, params, cluster_id, initial_desc, output, calls,
                   poller, timed_out, run>>
    /\ UNCHANGED <<listed, raised, info>>

\* FoundPresent, were it to enable the service whatever its status.
FoundPresent_AlwaysEnable ==
    /\ pc = "branch" /\ Found /\ state = "present"
    /\ UNCHANGED cluster_id
    /\ warnings' = Append(warnings, Warning(WarnPresent, ""))
    /\ IF wait
         THEN WaitForState(calls, REMOVABLE_STATES \cup STOPPED_STATES,
                           "enable")
         ELSE /\ pc' = "enable"
              /\ UNCHANGED <<calls, poll_state, poll_ret, elapsed>>
    /\ UNCHANGED <<services, params, descs, current_desc, service,
                   output, timed_out, run>>
    /\ UNCHANGED <<listed, raised, info>>

\* FoundPresent, were it to enable a stopped service without waiting.
FoundPresent_EnablesStoppedNoWait ==
    /\ pc = "branch" /\ Found /\ state = "present"
    /\ UNCHANGED cluster_id
    /\ warnings' = Append(warnings, Warning(WarnPresent, ""))
    /\ IF wait
         THEN WaitForState(calls, REMOVABLE_STATES \cup STOPPED_STATES,
                           "present_waited")
         ELSE /\ pc' = IF initial_desc.status \in STOPPED_STATES THEN "enable" ELSE "exit"
              /\ UNCHANGED <<calls, poll_state, poll_ret, elapsed>>
    /\ UNCHANGED <<services, params, descs, current_desc, service,
                   output, timed_out, run>>
    /\ UNCHANGED <<listed, raised, info>>

\* process(): a service was found, expected state 'present'.
FoundPresent ==
    /\ pc = "branch" /\ Found /\ state = "present"
    /\ UNCHANGED cluster_id
    /\ warnings' = Append(warnings, Warning(WarnPresent, ""))
    /\ IF wait
         THEN WaitForState(calls, REMOVABLE_STATES \cup STOPPED_STATES,
                           "present_waited")
         ELSE /\ pc' = "exit"
              /\ UNCHANGED <<calls, poll_state, poll_ret, elapsed>>
    /\ UNCHANGED <<services, params, descs, current_desc, service,
                   output, timed_out, run>>
    /\ UNCHANGED <<listed, raised, info>>

\* PresentWaited, were it to enable on a status in REMOVABLE_STATES.
PresentWaited_EnablesRemovable ==
    /\ pc = "present_waited"
    /\ waited_desc' = current_desc
    /\ pc' = IF waited_desc'.status \in REMOVABLE_STATES THEN "enable" ELSE "exit"
    /\ UNCHANGED <<services, params, cluster_id, initial_desc, service, output,
                   warnings, calls, poller, timed_out, run>>
    /\ UNCHANGED <<listed, raised, info>>

\* PresentWaited, were it to enable whatever is not active.
PresentWaited_EnablesUnlessRemovable ==
    /\ pc = "present_waited"
    /\ waited_desc' = current_desc
    /\ pc' = IF waited_desc'.status \notin REMOVABLE_STATES THEN "enable" ELSE "exit"
    /\ UNCHANGED <<services, params, cluster_id, initial_desc, service, output,
                   warnings, calls, poller, timed_out, run>>
    /\ UNCHANGED <<listed, raised, info>>

\* process(): after the wait of the 'present' branch.
PresentWaited ==
    /\ pc = "present_waited"
    /\ waited_desc' = current_desc
    /\ pc' = IF waited_desc'.status \in STOPPED_STATES THEN "enable" ELSE "exit"
    /\ UNCHANGED <<services, params, cluster_id, initial_desc, service, output,
                   warnings, calls, poller, timed_out, run>>
    /\ UNCHANGED <<listed, raised, info>>

\* NotFound, were it to create the service without looking at the state.
NotFound_IgnoresState ==
    /\ pc = "branch" /\ ~Found /\ state \in {"absent", "present"}
    /\ pc' = IF ~check_mode THEN "enable" ELSE "exit"
    /\ UNCHANGED <<services, params, cluster_id, descs, service, output,
                   warnings, calls, poller, timed_out, run>>
    /\ UNCHANGED <<listed, raised, info>>

\* NotFound, were it to create the service in check mode too.
NotFound_IgnoresCheckMode ==
    /\ pc = "branch" /\ ~Found /\ state \in {"absent", "present"}
    /\ pc' = IF state = "present" THEN "enable" ELSE "exit"
    /\ UNCHANGED <<services, params, cluster_id, descs, service, output,
                   warnings, calls, poller, timed_out, run>>
    /\ UNCHANGED <<listed, raised, info>>

\* process(): no service was found.
NotFound ==
    /\ pc = "branch" /\ ~Found /\ state \in {"absent", "present"}
    /\ pc' = IF state = "present" /\ ~check_mode THEN "enable" ELSE "exit"
    /\ UNCHANGED <<services, params, cluster_id, descs, service, output,
                   warnings, calls, poller, timed_out, run>>
    /\ UNCHANGED <<listed, raised, info>>

\* InvalidState, were it to treat an unknown state like 'present' instead of
\* failing.
InvalidState_AsPresent ==
    /\ pc = "branch" /\ state \notin {"absent", "present"}
    /\ pc' = IF Found THEN "exit" ELSE "enable"
    /\ UNCHANGED <<services, params, cluster_id, descs, service, output,
                   warnings, calls, poller, timed_out, run>>
    /\ UNCHANGED <<listed, raised, info>>

\* process(): module.fail_json on a state that is neither 'absent' nor 'present'.
InvalidState ==
    /\ pc = "branch" /\ state \notin {"absent", "present"}
    /\ pc' = "failed"
    /\ UNCHANGED <<services, params, cluster_id, descs, service, output,
                   warnings, calls, poller, timed_out, run>>
    /\ UNCHANGED <<listed, raised, info>>

\* EnableService, were it to keep the clusterId of the listing.
EnableService_KeepsClusterId ==
    /\ pc = "enable"
    /\ services' = Enabled(services)
    /\ cluster_id' = cluster_id
    /\ IF wait
         THEN /\ WaitForState(Append(calls, Call("enable_service", NullId, {})),
                              REMOVABLE_STATES, "enable_waited")
              /\ UNCHANGED service
         ELSE /\ calls' = Append(calls, Call("enable_service", NullId, {}))
              /\ service' = None
              /\ pc' = "exit"
              /\ UNCHANGED <<poll_state, poll_ret, elapsed>>
    /\ UNCHANGED <<params, descs, current_desc, output, warnings,
                   timed_out, run>>
    /\ UNCHANGED <<listed, raised, info>>

\* _enable_service(): the call, the new cluster id, and the wait or the return.
EnableService ==
    /\ pc = "enable"
    /\ services' = Enabled(services)
    /\ cluster_id' = services'[Len(services')].clusterId
    /\ IF wait
         THEN /\ WaitForState(Append(calls, Call("enable_service", NullId, {})),
                              REMOVABLE_STATES, "enable_waited")
              /\ UNCHANGED service
         ELSE /\ calls' = Append(calls, Call("enable_service", NullId, {}))
              /\ service' = None
              /\ pc' = "exit"
              /\ UNCHANGED <<poll_state, poll_ret, elapsed>>
    /\ UNCHANGED <<params, descs, current_desc, output, warnings,
                   timed_out, run>>
    /\ UNCHANGED <<listed, raised, info>>

\* EnableWaited, were it to return without the warning.
EnableWaited_NoWarning ==
    /\ pc = "enable_waited"
    /\ warnings' = warnings
    /\ service' = current_desc
    /\ pc' = "exit"
    /\ UNCHANGED <<services, params, cluster_id, descs, output, calls,
                   poller, timed_out, run>>
    /\ UNCHANGED <<listed, raised, info>>

\* _enable_service(): after the wait.
EnableWaited ==
    /\ pc = "enable_waited"
    /\ warnings' = IF current_desc.status \notin REMOVABLE_STATES
                     THEN Append(warnings, Warning(WarnNotEnabled, ""))
                     ELSE warnings
    /\ service' = current_desc
    /\ pc' = "exit"
    /\ UNCHANGED <<services, params, cluster_id, descs, output, calls,
                   poller, timed_out, run>>
    /\ UNCHANGED <<listed, raised, info>>

\* DisableService, were it to wait for REMOVABLE_STATES.
DisableService_WaitsRemovable ==
    /\ pc = "disable"
    /\ services' = Disabled(services, cluster_id)
    /\ UNCHANGED cluster_id
    /\ IF wait
         THEN /\ WaitForState(Append(calls, Call("disable_service", cluster_id, {})),
                              REMOVABLE_STATES, "disable_waited")
              /\ UNCHANGED service
         ELSE /\ calls' = Append(calls, Call("disable_service", cluster_id, {}))
              /\ service' = None
              /\ pc' = "exit"
              /\ UNCHANGED <<poll_state, poll_ret, elapsed>>
    /\ UNCHANGED <<params, descs, current_desc, output, warnings,
                   timed_out, run>>
    /\ UNCHANGED <<listed, raised, info>>

\* DisableService, were it to wait whatever the 'wait' parameter.
DisableService_AlwaysWaits ==
    /\ pc = "disable"
    /\ services' = Disabled(services, cluster_id)
    /\ UNCHANGED cluster_id
    /\ IF TRUE
         THEN /\ WaitForState(Append(calls, Call("disable_service", cluster_id, {})),
                              STOPPED_STATES, "disable_waited")
              /\ UNCHANGED service
         ELSE /\ calls' = Append(calls, Call("disable_service", cluster_id, {}))
              /\ service' = None
              /\ pc' = "exit"
              /\ UNCHANGED <<poll_state, poll_ret, elapsed>>
    /\ UNCHANGED <<params, descs, current_desc, output, warnings,
                   timed_out, run>>
    /\ UNCHANGED <<listed, raised, info>>

\* _disable_service(): the call, and the wait or the return.
DisableService ==
    /\ pc = "disable"
    /\ services' = Disabled(services, cluster_id)
    /\ UNCHANGED cluster_id
    /\ IF wait
         THEN /\ WaitForState(Append(calls, Call("disable_service", cluster_id, {})),
                              STOPPED_STATES, "disable_waited")
              /\ UNCHANGED service
         ELSE /\ calls' = Append(calls, Call("disable_service", cluster_id, {}))
              /\ service' = None
              /\ pc' = "exit"
              /\ UNCHANGED <<poll_state, poll_ret, elapsed>>
    /\ UNCHANGED <<params, descs, current_desc, output, warnings,
                   timed_out, run>>
    /\ UNCHANGED <<listed, raised, info>>

\* DisableWaited, were it to call disable_service again when the service
\* has not stopped.
DisableWaited_Retry ==
    /\ pc = "disable_waited"
    /\ warnings' = IF current_desc.status \notin STOPPED_STATES
                     THEN Append(warnings, Warning(WarnNotDisabled, ""))
                     ELSE warnings
    /\ service' = current_desc
    /\ pc' = IF current_desc.status \notin STOPPED_STATES THEN "disable" ELSE "exit"
    /\ UNCHANGED <<services, params, cluster_id, descs, output, calls,
                   poller, timed_out, run>>
    /\ UNCHANGED <<listed, raised, info>>

\* DisableWaited, were it to return without the warning.
DisableWaited_NoWarning ==
    /\ pc = "disable_waited"
    /\ warnings' = warnings
    /\ service' = current_desc
    /\ pc' = "exit"
    /\ UNCHANGED <<services, params, cluster_id, descs, output, calls,
                   poller, timed_out, run>>
    /\ UNCHANGED <<listed, raised, info>>

\* _disable_service(): after the wait.
DisableWaited ==
    /\ pc = "disable_waited"
    /\ warnings' = IF current_desc.status \notin STOPPED_STATES
                     THEN Append(warnings, Warning(WarnNotDisabled, ""))
                     ELSE warnings
    /\ service' = current_desc
    /\ pc' = "exit"
    /\ UNCHANGED <<services, params, cluster_id, descs, output, calls,
                   poller, timed_out, run>>
    /\ UNCHANGED <<listed, raised, info>>

\* The collaborator call the run is about to make.
PendingCall ==
    CASE pc = "list" -> Call("list_services", NullId, {})
      [] pc \in {"describe", "poll"} -> Call("describe_service", cluster_id, {})
      [] pc = "enable" -> Call("enable_service", NullId, {})
      [] pc = "disable" -> Call("disable_service", cluster_id, {})

\* Raise, were an exception of disable_service swallowed (a forced delete)
\* and the run to go on to its end.
Raise_SwallowedOnDisable ==
    /\ \/ pc \in {"list", "enable", "disable", "poll"}
       \/ pc = "describe" /\ cluster_id # NullId
    /\ calls' = Append(calls, PendingCall)
    /\ raised' = PendingCall.op
    /\ pc' = IF pc = "disable" THEN "exit" ELSE "aborted"
    /\ UNCHANGED <<services, params, cluster_id, descs, service, output,
                   warnings, poller, timed_out, run, listed, info>>

\* The pending collaborator call raises.  Neither process() nor its helpers
\* nor main() hold a try/except: the exception ends the run (through the
\* poller too, when the call is its describe).
Raise ==
    /\ \/ pc \in {"list", "enable", "disable", "poll"}
       \/ pc = "describe" /\ cluster_id # NullId
    /\ calls' = Append(calls, PendingCall)
    /\ raised' = PendingCall.op
    /\ pc' = "aborted"
    /\ UNCHANGED <<services, params, cluster_id, descs, service, output,
                   warnings, poller, timed_out, run, listed, info>>

\* Main, were it to report a change when the run has a service to return.
Main_ReportsChange ==
    /\ pc = "exit"
    /\ output' = [changed |-> Truthy(service),
                  service |-> IF Truthy(service) THEN service ELSE Empty,
                  set |-> TRUE]
    /\ pc' = "done"
    /\ UNCHANGED <<services, params, cluster_id, descs, service,
                   warnings, calls, poller, timed_out, run>>
    /\ UNCHANGED <<listed, raised, info>>

\* main(): the output handed to exit_json.
Main ==
    /\ pc = "exit"
    /\ output' = [changed |-> FALSE,
                  service |-> IF Truthy(service) THEN service ELSE Empty,
                  set |-> TRUE]
    /\ pc' = "done"
    /\ UNCHANGED <<services, params, cluster_id, descs, service,
                   warnings, calls, poller, timed_out, run>>
    /\ UNCHANGED <<listed, raised, info>>

\* The process of a run ends: nothing of the run survives but its effect on
\* the control plane.
EndRun ==
    /\ pc \in {"done", "failed", "aborted"}
    /\ run < MaxRuns
    /\ pc' = "ended"
    /\ state' = "present"
    /\ wait' = TRUE
    /\ check_mode' = FALSE
    /\ delay' = 1
    /\ timeout' = 1
    /\ cluster_id' = NullId
    /\ initial_desc' = None
    /\ waited_desc' = None
    /\ current_desc' = None
    /\ service' = None
    /\ output' = NoOutput
    /\ warnings' = <<>>
    /\ calls' = <<>>
    /\ poll_state' = {}
    /\ poll_ret' = "none"
    /\ elapsed' = 0
    /\ timed_out' = {}
    /\ listed' = <<>>
    /\ raised' = ""
    /\ UNCHANGED <<services, run, info>>

\* The module is invoked again, as a fresh process, against the same
\* control plane.
NextRun ==
    /\ pc = "ended"
    /\ state' \in DesiredStates
    /\ wait' \in BOOLEAN
    /\ check_mode' \in BOOLEAN
    /\ delay' \in 1..MaxDelay
    /\ timeout' \in 1..MaxTimeout
    /\ pc' = "list"
    /\ run' = run + 1
    /\ UNCHANGED <<services, cluster_id, initial_desc, waited_desc, current_desc, service,
                   output, warnings, calls, poll_state, poll_ret, elapsed,
                   timed_out>>
    /\ UNCHANGED <<listed, raised, info>>

\* The steps of one run of the module, and of the control plane beside it.
RunNext ==
    \/ ListServices
    \/ DescribeInitial
    \/ FoundAbsent
    \/ AbsentWaited
    \/ FoundPresent
    \/ PresentWaited
    \/ NotFound
    \/ InvalidState
    \/ EnableService
    \/ EnableWaited
    \/ DisableService
    \/ DisableWaited
    \/ PollDescribe
    \/ PollSleep
    \/ Raise
    \/ Main
    \/ RemoteProgress

\* Runs follow one another on the same control plane.
Next ==
    \/ RunNext
    \/ EndRun
    \/ NextRun

Spec == Init /\ [][Next]_vars

\* One run, whose poller is a blocking loop of the one thread of the run: its
\* describe returns and its sleep ends.
FairSpec == Init /\ [][RunNext]_vars /\ WF_vars(PollDescribe) /\ WF_vars(PollSleep)

\* ----------------------------------------------------------------- de_info
\* Values of the 'name' parameter of de_info; "" is the parameter left out.
InfoNames == Names \cup {"", "svc-c"}

\* The de module at rest while de_info runs.
DeAtRest ==
    /\ state = "present" /\ wait = TRUE /\ check_mode = FALSE
    /\ delay = 1 /\ timeout = 1
    /\ pc = "ended" /\ run = MaxRuns
    /\ cluster_id = NullId /\ initial_desc = None /\ waited_desc = None
    /\ current_desc = None /\ service = None /\ output = NoOutput
    /\ warnings = <<>> /\ calls = <<>>
    /\ poll_state = {} /\ poll_ret = "none" /\ elapsed = 0 /\ timed_out = {}
    /\ listed = <<>> /\ raised = ""

de == <<state, wait, check_mode, delay, timeout, pc, cluster_id, initial_desc,
        waited_desc, current_desc, service, output, warnings, calls,
        poll_state, poll_ret, elapsed, timed_out, run, listed, raised>>

\* A run of de_info: every listed service has its clusterId (de_info hands
\* it to describe_service unguarded).
InfoInit ==
    /\ \E n \in 0..MaxServices :
         services \in {s \in [1..n -> UNION {InitialServices(i) : i \in 1..n}] :
                          \A i \in 1..n : s[i].clusterId = i}
    /\ DeAtRest
    /\ \E n \in InfoNames : info = [NoInfo EXCEPT !.pc = "start", !.name = n]

\* DEInfo.process(), no name given: the listing is the result.
InfoListAll ==
    /\ info.pc = "start" /\ info.name = ""
    /\ info' = [info EXCEPT !.pc = "exit",
                            !.listed = list_services(services),
                            !.services = list_services(services),
                            !.calls = Append(@, Call("list_services", NullId, {}))]
    /\ UNCHANGED <<services, de>>

\* DEInfo.process(), a name given: the listing the loop runs over.
InfoList ==
    /\ info.pc = "start" /\ info.name # ""
    /\ info' = [info EXCEPT !.pc = "loop", !.i = 1,
                            !.listed = list_services(services),
                            !.calls = Append(@, Call("list_services", NullId, {}))]
    /\ UNCHANGED <<services, de>>

\* InfoLoop, were it to leave the loop at the first service of the name.
InfoLoop_StopsAtFirst ==
    /\ info.pc = "loop"
    /\ IF info.i > Len(info.listed)
         THEN info' = [info EXCEPT !.pc = "exit"]
         ELSE IF info.listed[info.i].name = info.name
           THEN info' = [info EXCEPT
                    !.i = Len(info.listed) + 1,
                    !.services = Append(@, describe_service(info.listed[info.i].clusterId)),
                    !.calls = Append(@, Call("describe_service",
                                             info.listed[info.i].clusterId, {}))]
           ELSE info' = [info EXCEPT !.i = @ + 1]
    /\ UNCHANGED <<services, de>>

\* DEInfo.process(): one round of the loop, which describes a service of the
\* given name and appends the description.
InfoLoop ==
    /\ info.pc = "loop"
    /\ IF info.i > Len(info.listed)
         THEN info' = [info EXCEPT !.pc = "exit"]
         ELSE IF info.listed[info.i].name = info.name
           THEN info' = [info EXCEPT
                    !.i = @ + 1,
                    !.services = Append(@, describe_service(info.listed[info.i].clusterId)),
                    !.calls = Append(@, Call("describe_service",
                                             info.listed[info.i].clusterId, {}))]
           ELSE info' = [info EXCEPT !.i = @ + 1]
    /\ UNCHANGED <<services, de>>

\* main() of de_info: the output handed to exit_json.
InfoMain ==
    /\ info.pc = "exit"
    /\ info' = [info EXCEPT !.pc = "done",
                            !.output = [changed |-> FALSE, services |-> info.services]]
    /\ UNCHANGED <<services, de>>

InfoNext ==
    \/ InfoListAll
    \/ InfoList
    \/ InfoLoop
    \/ InfoMain
    \/ RemoteProgress

InfoSpec == InfoInit /\ [][InfoNext]_vars

\* ------------------------------------------------------------------ claims
\* Positions in 'calls' of the calls of one collaborator operation.
CallsOf(op) == {i \in 1..Len(calls) : calls[i].op = op}
Mutations == CallsOf("enable_service") \cup CallsOf("disable_service")
Warned(msg) == \E i \in 1..Len(warnings) : warnings[i].msg = msg
Max_(S) == CHOOSE x \in S : \A y \in S : y <= x

\* The run has taken its decision on initial_desc (it has not ended on an
\* exception of the listing or of the initial describe) / has run process()
\* to its end.
AbortedEarly == pc = "aborted" /\ raised \in {"list_services", "describe_service"}
                  /\ Mutations = {} /\ CallsOf("wait_for_state") = {}
Decided == pc \notin {"list", "describe", "ended"} /\ ~AbortedEarly
ProcessReturned == pc \in {"exit", "done"}

\* C1: in check mode a run calls neither enable_service nor disable_service.
C1_CheckModeNoMutation ==
    check_mode => Mutations = {}

\* C2: in check mode a run never invokes wait_for_state, and the service it
\* returns for a found service is the initially observed descriptor.
C2_CheckModeEchoNoPoll ==
    check_mode =>
        /\ CallsOf("wait_for_state") = {}
        /\ (pc = "done" /\ Found) => output.service = initial_desc

\* C3: a run calls enable_service at most once and disable_service at most once.
C3_AtMostOnce ==
    /\ Cardinality(CallsOf("enable_service")) <= 1
    /\ Cardinality(CallsOf("disable_service")) <= 1

\* A run in which a wait preceded the one enable_service call, whose own wait
\* then timed out.
C3_Witness ==
    /\ pc = "done"
    /\ Cardinality(CallsOf("enable_service")) = 1
    /\ Cardinality(CallsOf("wait_for_state")) = 2
    /\ "enable_waited" \in timed_out

\* C4: a run with state 'present' that observes the service in
\* REMOVABLE_STATES never calls enable_service, in the first run and in
\* every later one.
C4_ActivePresentNoEnable ==
    (Decided /\ state = "present" /\ initial_desc.status \in REMOVABLE_STATES)
        => CallsOf("enable_service") = {}

\* A second run with state 'present' and wait that found the service active,
\* waited and ended.
C4_Witness ==
    /\ run = 2 /\ pc = "done" /\ state = "present" /\ wait
    /\ initial_desc.status \in REMOVABLE_STATES
    /\ CallsOf("wait_for_state") # {}
    /\ output.service = Empty

\* C5: a run with state 'absent' that finds no service calls neither
\* enable_service, disable_service nor wait_for_state and returns an empty service.
C5_AbsentNotFoundNoCalls ==
    (Decided /\ state = "absent" /\ ~Found) =>
        /\ Mutations = {}
        /\ CallsOf("wait_for_state") = {}
        /\ service = None
        /\ pc \in {"branch", "exit", "done"}
        /\ pc = "done" => output.service = Empty

\* A finished 'absent' run in an environment that lists other services only.
C5_Witness ==
    /\ pc = "done" /\ state = "absent" /\ ~check_mode /\ wait
    /\ cluster_id = NullId /\ Len(services) > 0
    /\ calls = <<Call("list_services", NullId, {})>>

\* C6: a run with a state other than 'present' and 'absent' fails (in fail_json,
\* unless the listing or the initial describe raised before), and calls
\* neither enable_service nor disable_service.
C6_InvalidStateFails ==
    state \notin {"present", "absent"} =>
        /\ Mutations = {}
        /\ pc \in {"list", "describe", "branch", "failed", "aborted"}
        /\ pc = "aborted" => AbortedEarly

\* A failed run on a found service.
C6_Witness ==
    /\ pc = "failed" /\ Found /\ ~check_mode
    /\ initial_desc.status \in REMOVABLE_STATES

\* C7: when a wait of the run timed out, the run ends without failing, with a
\* warning and with the last descriptor the poller saw as its service.
C7_TimeoutWarnsReturnsLast ==
    (pc = "done" /\ timed_out # {}) =>
        /\ warnings # <<>>
        /\ output.service = current_desc

\* C8 (as stated): with a service observed in STOPPED_STATES, state 'present' and
\* wait, enable_service is called exactly when the waited-for status is in
\* REMOVABLE_STATES.
C8_EnableIffRemovable ==
    (ProcessReturned /\ state = "present" /\ wait /\ Found
       /\ initial_desc.status \in STOPPED_STATES)
        => (CallsOf("enable_service") # {}
              <=> waited_desc.status \in REMOVABLE_STATES)

\* C8 (amended): with a found service, state 'present' and wait, the run first
\* waits for REMOVABLE_STATES or STOPPED_STATES and calls enable_service, after
\* that wait, exactly when the waited-for status is in STOPPED_STATES; a service
\* observed in STOPPED_STATES is waited for and then enabled.
C8_EnableIffStopped ==
    (ProcessReturned /\ state = "present" /\ wait /\ Found) =>
        /\ \E w \in CallsOf("wait_for_state") :
             /\ calls[w].states = REMOVABLE_STATES \cup STOPPED_STATES
             /\ calls[w].id = initial_desc.clusterId
             /\ \A c \in CallsOf("wait_for_state") \cup Mutations : w <= c
        /\ CallsOf("enable_service") # {} <=> waited_desc.status \in STOPPED_STATES
        /\ initial_desc.status \in STOPPED_STATES => CallsOf("enable_service") # {}

\* A finished run that observed a stopped service and enabled it after the wait.
C8_Witness ==
    /\ pc = "done" /\ state = "present" /\ wait /\ ~check_mode
    /\ initial_desc.status \in STOPPED_STATES
    /\ waited_desc.status \in STOPPED_STATES
    /\ CallsOf("enable_service") # {}

\* C9: with a service observed in REMOVABLE_STATES, state 'absent', wait and no
\* check mode, disable_service is called exactly once, with the clusterId of the
\* listed service, before the one wait, whose target is STOPPED_STATES; the
\* returned status is in STOPPED_STATES or the run warned.
C9_DisableThenWaitStopped ==
    (ProcessReturned /\ state = "absent" /\ wait /\ ~check_mode /\ Found
       /\ initial_desc.status \in REMOVABLE_STATES) =>
        /\ \E d \in CallsOf("disable_service") :
             /\ CallsOf("disable_service") = {d}
             /\ calls[d].id = initial_desc.clusterId
             /\ calls[d].id # NullId
             /\ initial_desc.name = Name
             /\ CallsOf("wait_for_state") = {d + 1}
             /\ calls[d + 1].states = STOPPED_STATES
             /\ calls[d + 1].id = calls[d].id
        /\ CallsOf("enable_service") = {}
        /\ service.status \in STOPPED_STATES \/ Warned(WarnNotDisabled)
        /\ pc = "done" => output.service = service

\* A finished run that disabled the active service and saw it stopped.
C9_Witness ==
    /\ pc = "done" /\ state = "absent" /\ wait /\ ~check_mode
    /\ initial_desc.status \in REMOVABLE_STATES
    /\ CallsOf("disable_service") # {}
    /\ output.service.status \in STOPPED_STATES
    /\ warnings = <<>>

\* C10: with no service found, state 'present', wait and no check mode,
\* enable_service is called and then wait_for_state with target
\* REMOVABLE_STATES on the new clusterId; the descriptor it returns is the
\* service of the run, with a warning exactly when its status is not in
\* REMOVABLE_STATES.
C10_EnableThenWaitRemovable ==
    (ProcessReturned /\ state = "present" /\ wait /\ ~check_mode /\ ~Found) =>
        /\ \E e \in CallsOf("enable_service") :
             /\ CallsOf("enable_service") = {e}
             /\ CallsOf("wait_for_state") = {e + 1}
             /\ calls[e + 1].states = REMOVABLE_STATES
             /\ calls[e + 1].id = cluster_id
        /\ cluster_id = services[Len(services)].clusterId
        /\ service = current_desc
        /\ service.clusterId = cluster_id
        /\ Warned(WarnNotEnabled) <=> service.status \notin REMOVABLE_STATES
        /\ pc = "done" => output.service = service

\* A finished run that enabled a missing service and gave up waiting for it.
C10_Witness ==
    /\ pc = "done" /\ state = "present" /\ wait /\ ~check_mode
    /\ initial_desc = None
    /\ CallsOf("enable_service") # {}
    /\ "enable_waited" \in timed_out
    /\ output.service.status = "ClusterCreationInProgress"
    /\ Warned(WarnNotEnabled)

\* C11: in check mode, with no service found and state 'present', enable_service
\* is not called and the returned service is empty.
C11_CheckModeNotFoundPresent ==
    (Decided /\ check_mode /\ state = "present" /\ ~Found) =>
        /\ CallsOf("enable_service") = {}
        /\ service = None
        /\ pc \in {"branch", "exit", "done"}
        /\ pc = "done" => output.service = Empty

\* A finished check-mode run with state 'present' that found no service.
C11_Witness ==
    /\ pc = "done" /\ check_mode /\ state = "present" /\ wait
    /\ initial_desc = None
    /\ output.service = Empty /\ output.set

\* C12: with wait off, no run invokes wait_for_state.
C12_NoWaitNoPoll ==
    ~wait =>
        /\ CallsOf("wait_for_state") = {}
        /\ pc \notin {"poll", "sleep"}
        /\ timed_out = {}

\* A finished run with wait off that disabled the service it found.
C12_Witness ==
    /\ pc = "done" /\ ~wait /\ ~check_mode /\ state = "absent"
    /\ CallsOf("disable_service") # {}
    /\ output.service = Empty

\* C13: every run that ends in exit_json reports changed = False, also when it
\* called enable_service or disable_service.
C13_ChangedAlwaysFalse ==
    /\ output.changed = FALSE
    /\ pc = "done" => output.set

\* A finished run with wait on that enabled a service and reports it.
C13_Witness ==
    /\ pc = "done" /\ output.set /\ ~output.changed
    /\ CallsOf("enable_service") # {}
    /\ output.service.status \in REMOVABLE_STATES

\* Where a wait_for_state returns to, and the describes of the wait entered
\* at position w of 'calls'.
ReturnPoints == {"absent_waited", "present_waited", "enable_waited", "disable_waited"}
DescribesOf(w) ==
    {j \in CallsOf("describe_service") :
        /\ w < j
        /\ \A v \in CallsOf("wait_for_state") : ~(w < v /\ v < j)}

\* The state part of C14.
C14_PollerInv ==
    /\ pc \in {"poll", "sleep"} => elapsed < timeout
    /\ \A w \in CallsOf("wait_for_state") :
         w < Len(calls) => /\ calls[w + 1].op = "describe_service"
                           /\ calls[w + 1].id = calls[w].id
    /\ pc = "sleep" => /\ current_desc.status \notin poll_state
                       /\ calls[Len(calls)].op = "describe_service"
    /\ pc \in ReturnPoints =>
         /\ calls[Len(calls)].op = "describe_service"
         /\ current_desc.clusterId = calls[Len(calls)].id
         /\ raised = ""
         /\ IF pc \in timed_out
              THEN current_desc.status \notin poll_state /\ elapsed >= timeout
              ELSE current_desc.status \in poll_state

\* The step part of C14: the sleep ends in another round or, on timeout, in
\* the return of the descriptor seen last.
C14_SleepStep ==
    pc = "sleep" =>
        /\ pc' \in {"sleep", "poll", poll_ret}
        /\ current_desc' = current_desc
        /\ raised' = ""

\* C14: the poller describes at once, returns the descriptor as soon as its
\* status is in the target states, returns the descriptor seen last on timeout
\* without raising, and always returns, whatever statuses the service reports.
C14_PollerTerminates ==
    /\ []C14_PollerInv
    /\ [][C14_SleepStep]_vars
    /\ (pc = "poll") ~> (pc \notin {"poll", "sleep"})

\* A wait that gave up after two describes of a service still being created.
C14_Witness ==
    /\ pc = "enable_waited" /\ pc \in timed_out
    /\ delay = 1 /\ timeout = 2
    /\ \E w \in CallsOf("wait_for_state") : Cardinality(DescribesOf(w)) = 2
    /\ current_desc.status = "ClusterCreationInProgress"

\* C15: with delay >= timeout every wait makes one describe call at most, and
\* exactly one once it has returned.
C15_OnePollWhenDelayCoversTimeout ==
    delay >= timeout =>
        \A w \in CallsOf("wait_for_state") :
            /\ Cardinality(DescribesOf(w)) <= 1
            /\ (pc \notin {"poll", "sleep"} \/ \E v \in CallsOf("wait_for_state") : v > w)
                 => Cardinality(DescribesOf(w)) = 1

\* A run whose wait gave up after its one describe, delay 2 and timeout 1.
C15_Witness ==
    /\ pc = "done" /\ delay = 2 /\ timeout = 1
    /\ timed_out = {"disable_waited"}
    /\ \E w \in CallsOf("wait_for_state") : Cardinality(DescribesOf(w)) = 1

\* C16: when a collaborator call raises, the run ends there: the raising call
\* is its last call, and it reaches neither its end nor exit_json.
C16_RaiseAbortsRun ==
    /\ raised # "" =>
         /\ pc = "aborted"
         /\ calls[Len(calls)].op = raised
         /\ output = NoOutput
    /\ pc = "aborted" =>
         raised \in {"list_services", "describe_service", "enable_service",
                     "disable_service"}

\* A run that enabled a service and ended on an exception of the describe of
\* its wait.
C16_Witness ==
    /\ pc = "aborted" /\ raised = "describe_service"
    /\ CallsOf("enable_service") # {}
    /\ \E w \in CallsOf("wait_for_state") : w > Max_(CallsOf("enable_service"))

\* clusterIds of the listed services of a name, in list order.
MatchIds(list, n) ==
    LET hits == SelectSeq(list, LAMBDA r : r.name = n)
    IN  [k \in 1..Len(hits) |-> hits[k].clusterId]
DescribedIds(log) ==
    LET hits == SelectSeq(log, LAMBDA c : c.op = "describe_service")
    IN  [k \in 1..Len(hits) |-> hits[k].id]

\* C17: de_info calls list_services and describe_service only; with a name it
\* returns the descriptions, by clusterId and in list order, of exactly the
\* listed services of that name (none when none has it); without a name it
\* returns the listing.
C17_InfoReadsAndFilters ==
    /\ \A i \in 1..Len(info.calls) :
         info.calls[i].op \in {"list_services", "describe_service"}
    /\ calls = <<>>
    /\ (info.pc = "done" /\ info.name # "") =>
         LET ids == MatchIds(list_services(services), info.name)
             out == info.output.services
         IN  /\ Len(out) = Len(ids)
             /\ DescribedIds(info.calls) = ids
             /\ \A k \in 1..Len(ids) :
                  /\ out[k].clusterId = ids[k]
                  /\ out[k].name = info.name
                  /\ services[ids[k]].status \in {out[k].status, Completed(out[k].status)}
    /\ (info.pc = "done" /\ info.name = "") =>
         /\ info.output.services = list_services(services)
         /\ DescribedIds(info.calls) = <<>>

\* A finished de_info run that returned two services of the name, in list
\* order, the first still being deleted when it was described.
C17_Witness ==
    /\ info.pc = "done" /\ info.name = Name
    /\ Len(info.output.services) = 2
    /\ info.output.services[1].clusterId = 1
    /\ info.output.services[1].status = "ClusterDeletionInProgress"
    /\ info.output.services[2].status \in REMOVABLE_STATES

\* The status the run saw last before it decides to disable or to enable.
LastSeen == IF waited_desc # None THEN waited_desc ELSE initial_desc

\* C18: disable_service is called, or about to be, only with state 'absent',
\* for a status seen last (by the initial describe, or by the wait before) in
\* REMOVABLE_STATES, and with the clusterId, not None, of a listed service
\* named self.name; a service seen in STOPPED_STATES is not disabled.
C18_DisableOnlyRemovable ==
    /\ (CallsOf("disable_service") # {} \/ pc = "disable") =>
         /\ state = "absent" /\ ~check_mode
         /\ LastSeen.status \in REMOVABLE_STATES
         /\ LastSeen.clusterId = cluster_id
         /\ cluster_id # NullId
         /\ \E i \in 1..Len(listed) :
              listed[i].name = Name /\ listed[i].clusterId = cluster_id
         /\ \A d \in CallsOf("disable_service") : calls[d].id = cluster_id
    /\ (Decided /\ LastSeen.status \in STOPPED_STATES) =>
         CallsOf("disable_service") = {} /\ pc # "disable"

\* A finished run that waited for a service being created and then disabled it.
C18_Witness ==
    /\ pc = "done" /\ state = "absent"
    /\ initial_desc.status = "ClusterCreationInProgress"
    /\ waited_desc.status \in REMOVABLE_STATES
    /\ CallsOf("disable_service") # {}
    /\ Len(listed) = 2 /\ cluster_id = 2

\* C19: with a service observed in neither state set, state 'absent', wait and
\* no check mode, the run warns, waits for REMOVABLE_STATES or STOPPED_STATES
\* and acts on the status the wait returned: in REMOVABLE_STATES, one
\* disable_service followed by a wait for STOPPED_STATES; otherwise no
\* disable_service, and the descriptor of the wait is returned.
C19_TransitioningAbsent ==
    (ProcessReturned /\ state = "absent" /\ wait /\ ~check_mode /\ Found
       /\ initial_desc.status \notin REMOVABLE_STATES \cup STOPPED_STATES) =>
        /\ Len(warnings) >= 2
        /\ warnings[1] = Warning(WarnNotRemovable, initial_desc.status)
        /\ warnings[2] = Warning(WarnWaiting, "")
        /\ calls[3] = Call("wait_for_state", initial_desc.clusterId,
                           REMOVABLE_STATES \cup STOPPED_STATES)
        /\ waited_desc.clusterId = initial_desc.clusterId
        /\ CallsOf("enable_service") = {}
        /\ IF waited_desc.status \in REMOVABLE_STATES
             THEN \E d \in CallsOf("disable_service") :
                    /\ CallsOf("disable_service") = {d}
                    /\ calls[d].id = initial_desc.clusterId
                    /\ CallsOf("wait_for_state") = {3, d + 1}
                    /\ d > 3
                    /\ calls[d + 1].states = STOPPED_STATES
                    /\ service = current_desc
                    /\ service.status \in STOPPED_STATES \/ Warned(WarnNotDisabled)
             ELSE /\ Mutations = {}
                  /\ CallsOf("wait_for_state") = {3}
                  /\ service = waited_desc
                  /\ Warned(WarnNotDisabled) <=> waited_desc.status \notin STOPPED_STATES

\* A finished run that waited for a service being created, disabled it and
\* saw it stopped.
C19_Witness ==
    /\ pc = "done" /\ state = "absent" /\ wait /\ ~check_mode
    /\ initial_desc.status = "ClusterCreationInProgress"
    /\ waited_desc.status \in REMOVABLE_STATES
    /\ Cardinality(CallsOf("disable_service")) = 1
    /\ output.service.status \in STOPPED_STATES

\* C20 (as stated): enable_service is called, or about to be, only when no
\* listed service has the name or the wait before returned a status in
\* STOPPED_STATES.
C20_EnableOnlyUnlistedOrStopped ==
    (CallsOf("enable_service") # {} \/ pc = "enable") =>
        \/ \A i \in 1..Len(listed) : listed[i].name # Name
        \/ waited_desc.status \in STOPPED_STATES

\* C20 (amended): enable_service is called, or about to be, only with state
\* 'present' and either for no service found (no listed service of the name,
\* the first one listed without clusterId, or described with an empty
\* status) and outside check mode, or after a wait on the found service
\* that returned a status in STOPPED_STATES.
C20_EnableOnlyNotFoundOrStopped ==
    (CallsOf("enable_service") # {} \/ pc = "enable") =>
        /\ state = "present"
        /\ \/ /\ ~Found /\ ~check_mode /\ waited_desc = None
              /\ \/ \A i \in 1..Len(listed) : listed[i].name # Name
                 \/ FirstMatch(listed, 1) = NullId
                 \/ /\ initial_desc.status = ""
                    /\ initial_desc.clusterId = FirstMatch(listed, 1)
           \/ /\ Found /\ wait
              /\ waited_desc.status \in STOPPED_STATES
              /\ waited_desc.clusterId = initial_desc.clusterId

\* A finished run that enabled a service although one of the name, described
\* with an empty status, was listed.
C20_Witness ==
    /\ pc = "done" /\ state = "present"
    /\ initial_desc.clusterId # NullId /\ initial_desc.status = ""
    /\ CallsOf("enable_service") # {}
    /\ \E i \in 1..Len(listed) : listed[i].name = Name

\* C21: once enable_service has returned, every later call of the run is a
\* wait or a describe on the clusterId it returned, that of the service the
\* control plane created, which is not the clusterId of the listing; the
\* descriptor a completed wait hands back is that service's.
C21_PollsUseNewClusterId ==
    \A e \in CallsOf("enable_service") :
        raised # "enable_service" =>
            /\ cluster_id = Len(services)
            /\ services[cluster_id].name = Name
            /\ \A j \in 1..Len(listed) : listed[j].clusterId # cluster_id
            /\ Found => cluster_id # initial_desc.clusterId
            /\ \A k \in (e + 1)..Len(calls) :
                 /\ calls[k].op \in {"wait_for_state", "describe_service"}
                 /\ calls[k].id = cluster_id
            /\ (wait /\ pc \in {"enable_waited", "exit", "done"}) =>
                 current_desc.clusterId = cluster_id
            /\ (wait /\ pc \in {"exit", "done"}) => service.clusterId = cluster_id

\* A finished run that found service 1 stopped, enabled the name again and
\* polled, twice, the new service 2.
C21_Witness ==
    /\ pc = "done" /\ state = "present"
    /\ initial_desc.clusterId = 1 /\ initial_desc.status \in STOPPED_STATES
    /\ \E e \in CallsOf("enable_service") :
         /\ Len(calls) = e + 3
         /\ calls[e + 2] = Call("describe_service", 2, {})
         /\ calls[e + 3] = Call("describe_service", 2, {})
    /\ output.service.clusterId = 2

\* C22: a run with state 'absent', wait and no check mode that returns on a
\* found service returns a descriptor in STOPPED_STATES or has warned that
\* the service did not disable.
C22_AbsentEndsStoppedOrWarned ==
    (ProcessReturned /\ state = "absent" /\ wait /\ ~check_mode /\ Found) =>
        /\ service # None
        /\ service.status \in STOPPED_STATES \/ Warned(WarnNotDisabled)
        /\ pc = "done" => output.service = service

\* A finished run that disabled an active service and gave up waiting while
\* it was still being deleted.
C22_Witness ==
    /\ pc = "done" /\ state = "absent" /\ wait /\ ~check_mode
    /\ initial_desc.status \in REMOVABLE_STATES
    /\ CallsOf("disable_service") # {}
    /\ output.service.status = "ClusterDeletionInProgress"
    /\ Warned(WarnNotDisabled)

\* C23: with wait off, state 'present' and a service found, the initial
\* describe is the last collaborator call of the run, whatever the status
\* and the check mode, and the returned service is empty.
C23_NoWaitPresentFoundNoCalls ==
    (Decided /\ ~wait /\ state = "present" /\ Found) =>
        /\ pc \in {"branch", "exit", "done"}
        /\ calls = <<Call("list_services", NullId, {}),
                     Call("describe_service", initial_desc.clusterId, {})>>
        /\ service = None
        /\ pc = "done" => output.service = Empty

\* A finished run with wait off and state 'present' that found the service
\* stopped.
C23_Witness ==
    /\ pc = "done" /\ ~wait /\ state = "present" /\ ~check_mode
    /\ initial_desc.status \in STOPPED_STATES
    /\ Len(calls) = 2
    /\ output.set /\ output.service = Empty

====
